---- MODULE Spec2Model ----
(***************************************************************************)
(* dpf_risk.py: stream a telemetry CSV in chunks, fold every chunk into a  *)
(* per-VIN store of six running counters, and after every chunk rebuild,   *)
(* persist and display the ranking of all VINs by DPF-clog risk.           *)
(* scrape.py: fetch every page of every stat type of every day from the    *)
(* API, one cache file per day and stat type.                              *)
(*                                                                         *)
(* Numbers.  A numeric CSV cell is NaN (<<>>) or a number (<<n>>).  Every  *)
(* quotient the script computes in floating point is computed here as an   *)
(* exact rational <<numerator, denominator>> in lowest terms; the speeds   *)
(* of the model are integers, for which the script's sums are exact too.   *)
(***************************************************************************)
EXTENDS Integers, Sequences, FiniteSets, TLC

VARIABLES
    csv,        \* args.csv: the data rows of the file, in file order
    columns,    \* the columns the header line of the file names
    chunksize,  \* args.chunk
    start_d,    \* parse_date(args.start): None or a date
    end_d,      \* parse_date(args.end): None or a date
    pc,         \* position of main()
    cidx,       \* index of the chunk last drawn from read_csv (0: none yet)
    chunk,      \* the chunk in hand, after the date filter
    store,      \* the dict of main(): entries in insertion order
    df_now,     \* the ranking last built by store_to_df, or Unbound
    target_csv, \* the output file: NoFile or [header, rows]
    live,       \* the table the Live display shows, or NoTable
    console,    \* the tables printed after the loop
    error,      \* the exception that ended the run, or NoError
    persisted,  \* history: the ranking of the last to_csv call that returned
    fresh,      \* two fresh stores, A and B, fed the same rows in different batches
    cut,        \* the number of rows already merged into each of them
    npages,     \* the API: how many pages the history of each stat type has
    ndays,      \* args.ndays of scrape.py
    cache_dir,  \* .cache: for each cache file, NoFile or its text
    fetch,      \* position and locals of scrape.py: pc, run, day_offset, i, all_data, after
    requests,   \* history: the GET requests of the present run, in order
    failed      \* history: the requests that ever failed

vars == <<csv, columns, chunksize, start_d, end_d, pc, cidx, chunk, store, df_now,
          target_csv, live, console, error, persisted, fresh, cut,
          npages, ndays, cache_dir, fetch, requests, failed>>

(***************************************************************************)
(* Bounds of the model and constants of the script                         *)
(***************************************************************************)
MaxRows == 3
MaxChunk == 2
MaxPages == 2
MaxDays == 2
MaxRuns == 2

COOLANT_COLD_C == 60000
LOAD_LOW_PCT == 40
SPEED_IDLE == 1
SPEED_LOW == 20
HIGHWAY_MPH == 60
RPM_IDLE_MIN == 600
RPM_IDLE_MAX == 1000
TOP_N_LIVE == 5
TOP_N_FINAL == 10

\* Python's None; a value that may be None is <<>> or <<v>>.
None == <<>>
Some(v) == <<v>>

NoError == "none"
Unbound == [bound |-> FALSE]
NoFile == [exists |-> FALSE]
NoTable == [shown |-> FALSE]

NaN == <<>>
Num(n) == <<n>>

(***************************************************************************)
(* Exact rationals <<n, d>>, d > 0, in lowest terms                        *)
(***************************************************************************)
Abs(n) == IF n < 0 THEN -n ELSE n

RECURSIVE GCD(_, _)
GCD(a, b) == IF b = 0 THEN a ELSE GCD(b, a % b)

Q(n, d) ==
    LET g == GCD(Abs(n), d)
    IN  <<n \div g, d \div g>>

QInt(n) == <<n, 1>>
QAdd(a, b) == Q(a[1] * b[2] + b[1] * a[2], a[2] * b[2])
QSub(a, b) == Q(a[1] * b[2] - b[1] * a[2], a[2] * b[2])
QMul(a, b) == Q(a[1] * b[1], a[2] * b[2])
QLe(a, b) == a[1] * b[2] <= b[1] * a[2]
QLt(a, b) == a[1] * b[2] < b[1] * a[2]
QMax(a, b) == IF QLe(a, b) THEN b ELSE a

(***************************************************************************)
(* The input: rows of the CSV file                                         *)
(***************************************************************************)
VINS == <<"V1", "V2", "V3">>

Dates == {1, 2}

\* The values of --start and --end: no date, or one of Dates.
DateArgs == {None} \cup {Some(d) : d \in Dates}

\* A timestamp: calendar date, hour of day and UTC offset in hours.
Time(d, h, off) == [date |-> d, hour |-> h, utcoffset |-> off]

Row(v, t, rpm, spd, load, cool) ==
    [vin |-> v, time |-> t, engineRpm |-> rpm, ecuSpeedMph |-> spd,
     engineLoadPercent |-> load, engineCoolantTemperatureMilliC |-> cool]

\* The columns the script reads.
ALL_COLUMNS ==
    {"time", "vin", "engineRpm", "ecuSpeedMph", "engineLoadPercent",
     "engineCoolantTemperatureMilliC"}

\* The columns update_store compares with a threshold.
NUMERIC ==
    {"engineRpm", "ecuSpeedMph", "engineLoadPercent", "engineCoolantTemperatureMilliC"}

\* A cell read_csv could not parse as a number: it stays a str.
Bad == <<"str", "n/a">>

IsStr(x) == Len(x) = 2

\* The rows a file of the model is made of.
RowPool ==
    { Row("V1", Time(1, 12, 0), Num(700), Num(0), Num(10), Num(50000)),
      Row("V2", Time(1, 12, 0), Num(1500), Num(65), Num(80), Num(90000)),
      Row("V2", Time(2, 1, 0), Num(700), Num(0), Num(10), Num(50000)),
      Row("V1", Time(2, 1, 2), NaN, NaN, Num(80), NaN),
      Row("V3", Time(1, 23, -2), Num(1500), Num(-10), Num(80), Num(90000)),
      Row("V3", Time(2, 12, 0), Num(700), Num(10), NaN, Num(90000)) }

\* A row whose engineRpm cell is not a number.
BadRow == Row("V1", Time(1, 12, 0), Bad, Num(0), Num(10), Num(50000))

RECURSIVE SeqsUpTo(_, _)
SeqsUpTo(S, n) ==
    IF n = 0 THEN {<<>>}
    ELSE LET shorter == SeqsUpTo(S, n - 1)
         IN  shorter \cup {Append(s, x) : s \in {t \in shorter : Len(t) = n - 1}, x \in S}

(***************************************************************************)
(* update_store: classify the rows, aggregate per VIN, add into the store  *)
(***************************************************************************)
\* Variant: a NaN cell compares as less than any threshold.
Lt_NullIsLess(x, c) == x = NaN \/ x[1] < c

\* A comparison with NaN is false.
Gt(x, c) == x # NaN /\ x[1] > c
Lt(x, c) == x # NaN /\ x[1] < c

\* astype("uint8") of a boolean column.
Uint8(b) == IF b THEN 1 ELSE 0

fillna(x, v) == IF x = NaN THEN v ELSE x[1]

\* The five columns update_store adds to a row of the frame.
Classify(r) ==
    [idle |-> Uint8(/\ Gt(r.engineRpm, RPM_IDLE_MIN)
                    /\ Lt(r.engineRpm, RPM_IDLE_MAX)
                    /\ Lt(r.ecuSpeedMph, SPEED_IDLE)),
     low_speed |-> Uint8(Lt(r.ecuSpeedMph, SPEED_LOW)),
     low_load |-> Uint8(Lt(r.engineLoadPercent, LOAD_LOW_PCT)),
     cold_engine |-> Uint8(Lt(r.engineCoolantTemperatureMilliC, COOLANT_COLD_C)),
     spd_sum |-> fillna(r.ecuSpeedMph, 0)]

\* Variant: total=("engineLoadPercent", "count"), which leaves out NaN cells.
AggOfRow_CountLoad(r) ==
    LET c == Classify(r)
    IN  <<Uint8(r.engineLoadPercent # NaN), c.idle, c.low_speed, c.low_load,
          c.cold_engine, c.spd_sum>>

\* The aggregate of one row: size 1 and its classified columns.
AggOfRow(r) ==
    LET c == Classify(r)
    IN  <<1, c.idle, c.low_speed, c.low_load, c.cold_engine, c.spd_sum>>

ZeroSlot == <<0, 0, 0, 0, 0, 0>>

SlotAdd(a, b) == [i \in 1..6 |-> a[i] + b[i]]

\* The sums of one group: the rows of the frame whose vin is v.
RECURSIVE GroupSum(_, _)
GroupSum(frame, v) ==
    IF frame = <<>> THEN ZeroSlot
    ELSE IF Head(frame).vin = v
         THEN SlotAdd(AggOfRow(Head(frame)), GroupSum(Tail(frame), v))
         ELSE GroupSum(Tail(frame), v)

InFrame(frame, v) == \E i \in 1..Len(frame) : frame[i].vin = v

\* frame.groupby("vin"): the group keys, sorted.
GroupKeys(frame) == SelectSeq(VINS, LAMBDA v : InFrame(frame, v))

\* frame.groupby("vin").agg(...): one row of six sums per key, in key order.
GroupAgg(frame) ==
    LET keys == GroupKeys(frame)
    IN  [i \in 1..Len(keys) |-> [vin |-> keys[i], row |-> GroupSum(frame, keys[i])]]

HasKey(st, v) == \E i \in 1..Len(st) : st[i].vin = v

\* Variant: a new zero slot is appended whether or not the key is there.
setdefault_AlwaysAppend(st, v) == Append(st, [vin |-> v, slot |-> ZeroSlot])

\* slot = store.setdefault(vin, [0] * 6)
setdefault(st, v) ==
    IF HasKey(st, v) THEN st ELSE Append(st, [vin |-> v, slot |-> ZeroSlot])

\* Variant: slot[i] = row[k], the last batch replacing the running sums.
AddInto_Overwrite(st, v, row) ==
    LET st1 == setdefault(st, v)
    IN  [i \in 1..Len(st1) |->
            IF st1[i].vin = v THEN [vin |-> v, slot |-> row] ELSE st1[i]]

\* Variant: slot[i] -= row[k].
AddInto_Subtract(st, v, row) ==
    LET st1 == setdefault(st, v)
    IN  [i \in 1..Len(st1) |->
            IF st1[i].vin = v
            THEN [vin |-> v, slot |-> [k \in 1..6 |-> st1[i].slot[k] - row[k]]]
            ELSE st1[i]]

\* slot[i] += row[k], for the six counters of one aggregated row
AddInto(st, v, row) ==
    LET st1 == setdefault(st, v)
    IN  [i \in 1..Len(st1) |->
            IF st1[i].vin = v
            THEN [vin |-> v, slot |-> SlotAdd(st1[i].slot, row)]
            ELSE st1[i]]

RECURSIVE FoldAgg(_, _)
FoldAgg(st, agg) ==
    IF agg = <<>> THEN st
    ELSE FoldAgg(AddInto(st, Head(agg).vin, Head(agg).row), Tail(agg))

update_store(st, frame) == FoldAgg(st, GroupAgg(frame))

\* A chunk with a cell that is no number has that whole column as object
\* dtype, holding str.
HasStr(frame) ==
    \E i \in 1..Len(frame) : \E c \in NUMERIC : IsStr(frame[i][c])

\* Variant: a frame without the vin column is grouped all the same.
update_store_raises_VinUnchecked(cols, frame) ==
    IF ~(NUMERIC \subseteq cols) THEN "KeyError"
    ELSE IF HasStr(frame) THEN "TypeError"
    ELSE NoError

\* The exception update_store raises before it touches the store: KeyError
\* for a column the frame lacks (frame["engineRpm"], groupby("vin")),
\* TypeError for comparing a str column with a number.
update_store_raises(cols, frame) ==
    IF ~((NUMERIC \cup {"vin"}) \subseteq cols) THEN "KeyError"
    ELSE IF HasStr(frame) THEN "TypeError"
    ELSE NoError

\* The slot of a VIN in a store (all zero when it has none).
SlotOf(st, v) ==
    IF HasKey(st, v) THEN st[CHOOSE i \in 1..Len(st) : st[i].vin = v].slot
    ELSE ZeroSlot

Keys(st) == {st[i].vin : i \in 1..Len(st)}

(***************************************************************************)
(* store_to_df: score every entry, build the frame, sort it by Risk        *)
(***************************************************************************)
COLUMNS == <<"VIN", "Risk", "IdleP", "LowSpeedP", "LowLoadP", "ColdP", "AvgKph">>

Range(s) == {s[i] : i \in 1..Len(s)}

\* Variant: spd_pen = 1 - avg_spd / HIGHWAY_MPH, without the max(0, ...).
ScoreRow_NoClamp(vin, slot) ==
    LET tot == slot[1]
        idle_r == Q(slot[2], tot)
        low_s_r == Q(slot[3], tot)
        low_l_r == Q(slot[4], tot)
        cold_r == Q(slot[5], tot)
        avg_spd == Q(slot[6], tot)
        spd_pen == QSub(QInt(1), QMul(avg_spd, Q(1, HIGHWAY_MPH)))
        risk == QMul(Q(2, 10),
                     QAdd(QAdd(QAdd(QAdd(idle_r, low_s_r), low_l_r), cold_r), spd_pen))
    IN  [VIN |-> vin,
         Risk |-> risk,
         IdleP |-> QMul(idle_r, QInt(100)),
         LowSpeedP |-> QMul(low_s_r, QInt(100)),
         LowLoadP |-> QMul(low_l_r, QInt(100)),
         ColdP |-> QMul(cold_r, QInt(100)),
         AvgKph |-> QMul(avg_spd, Q(160934, 100000))]

\* Variant: spd_pen computed from the average speed in km/h.
ScoreRow_PenaltyKph(vin, slot) ==
    LET tot == slot[1]
        idle_r == Q(slot[2], tot)
        low_s_r == Q(slot[3], tot)
        low_l_r == Q(slot[4], tot)
        cold_r == Q(slot[5], tot)
        avg_spd == Q(slot[6], tot)
        avg_kph == QMul(avg_spd, Q(160934, 100000))
        spd_pen == QMax(QInt(0), QSub(QInt(1), QMul(avg_kph, Q(1, HIGHWAY_MPH))))
        risk == QMul(Q(2, 10),
                     QAdd(QAdd(QAdd(QAdd(idle_r, low_s_r), low_l_r), cold_r), spd_pen))
    IN  [VIN |-> vin,
         Risk |-> risk,
         IdleP |-> QMul(idle_r, QInt(100)),
         LowSpeedP |-> QMul(low_s_r, QInt(100)),
         LowLoadP |-> QMul(low_l_r, QInt(100)),
         ColdP |-> QMul(cold_r, QInt(100)),
         AvgKph |-> avg_kph]

\* The row of one store entry whose total is not zero.
ScoreRow(vin, slot) ==
    LET tot == slot[1]
        idle_r == Q(slot[2], tot)
        low_s_r == Q(slot[3], tot)
        low_l_r == Q(slot[4], tot)
        cold_r == Q(slot[5], tot)
        avg_spd == Q(slot[6], tot)
        spd_pen == QMax(QInt(0), QSub(QInt(1), QMul(avg_spd, Q(1, HIGHWAY_MPH))))
        risk == QMul(Q(2, 10),
                     QAdd(QAdd(QAdd(QAdd(idle_r, low_s_r), low_l_r), cold_r), spd_pen))
    IN  [VIN |-> vin,
         Risk |-> risk,
         IdleP |-> QMul(idle_r, QInt(100)),
         LowSpeedP |-> QMul(low_s_r, QInt(100)),
         LowLoadP |-> QMul(low_l_r, QInt(100)),
         ColdP |-> QMul(cold_r, QInt(100)),
         AvgKph |-> QMul(avg_spd, Q(160934, 100000))]

\* Variant: entries that never idled are skipped as well.
RECURSIVE ScoreRows_SkipNoIdle(_)
ScoreRows_SkipNoIdle(st) ==
    IF st = <<>> THEN <<>>
    ELSE IF Head(st).slot[1] = 0 \/ Head(st).slot[2] = 0
         THEN ScoreRows_SkipNoIdle(Tail(st))
         ELSE <<ScoreRow(Head(st).vin, Head(st).slot)>> \o ScoreRows_SkipNoIdle(Tail(st))

\* The loop over store.items(): insertion order, entries of total 0 skipped.
RECURSIVE ScoreRows(_)
ScoreRows(st) ==
    IF st = <<>> THEN <<>>
    ELSE IF Head(st).slot[1] = 0
         THEN ScoreRows(Tail(st))
         ELSE <<ScoreRow(Head(st).vin, Head(st).slot)>> \o ScoreRows(Tail(st))

\* pd.DataFrame(rows): a list of no dicts makes a frame of no columns.
DataFrame(rows) ==
    [columns |-> IF rows = <<>> THEN <<>> ELSE COLUMNS, rows |-> rows]

Injections(n) ==
    {p \in [1..n -> 1..n] : \A i, j \in 1..n : i # j => p[i] # p[j]}

Descending(rows) ==
    \A i, j \in 1..Len(rows) : i < j => QLe(rows[j].Risk, rows[i].Risk)

\* sort_values("Risk", ascending=False) with the default kind, quicksort,
\* which is not stable: every descending order of the rows is an outcome.
sort_values(df) ==
    {[columns |-> df.columns, rows |-> [i \in 1..Len(df.rows) |-> df.rows[p[i]]]] :
        p \in {q \in Injections(Len(df.rows)) :
                  Descending([i \in 1..Len(df.rows) |-> df.rows[q[i]]])}}

\* sort_values raises KeyError when the frame has no column Risk.
RaisesKeyError(df) == "Risk" \notin Range(df.columns)

\* The frames store_to_df may return (none when it raises).
store_to_df(st) ==
    LET df == DataFrame(ScoreRows(st))
    IN  IF RaisesKeyError(df) THEN {} ELSE sort_values(df)

(***************************************************************************)
(* render_table: the top_n rows, formatted                                 *)
(***************************************************************************)
RECURSIVE Pow10(_)
Pow10(k) == IF k = 0 THEN 1 ELSE 10 * Pow10(k - 1)

\* f"{x:.kf}": x rounded to k decimals (half to even), in units of 10^-k.
Fixed(x, k) ==
    LET n == x[1] * Pow10(k)
        fl == n \div x[2]
        twice == 2 * (n - fl * x[2])
    IN  IF twice < x[2] THEN fl
        ELSE IF twice > x[2] THEN fl + 1
        ELSE IF fl % 2 = 0 THEN fl ELSE fl + 1

Min(a, b) == IF a <= b THEN a ELSE b

head(df, n) == SubSeq(df.rows, 1, Min(n, Len(df.rows)))

render_table(df, id, top_n, title) ==
    LET top == head(df, top_n)
    IN  [title |-> IF title = None
                    THEN <<"Chunk", id, "Top", top_n, "DPF Risk">>
                    ELSE title[1],
         rows |-> [rank \in 1..Len(top) |->
                     <<rank, top[rank].VIN, Fixed(top[rank].Risk, 4),
                       Fixed(top[rank].IdleP, 2), Fixed(top[rank].LowSpeedP, 2),
                       Fixed(top[rank].LowLoadP, 2), Fixed(top[rank].ColdP, 2),
                       Fixed(top[rank].AvgKph, 1)>>]]

(***************************************************************************)
(* read_csv in chunks, and the date filter of main                         *)
(***************************************************************************)
\* A file of no data rows yields one empty chunk; otherwise the rows are
\* cut into consecutive chunks of `size` rows, the last one maybe shorter.
NumChunks(rows, size) ==
    IF rows = <<>> THEN 1 ELSE (Len(rows) + size - 1) \div size

read_chunk(rows, size, i) ==
    SubSeq(rows, (i - 1) * size + 1, Min(i * size, Len(rows)))

\* pd.to_datetime(time, utc=True).dt.date
UtcDate(t) == t.date + ((t.hour - t.utcoffset) \div 24)

\* Variant: the end date is exclusive.
date_filter_EndExclusive(frame, s, e) ==
    LET from == IF s # None
                THEN SelectSeq(frame, LAMBDA r : UtcDate(r.time) >= s[1])
                ELSE frame
    IN  IF e # None
        THEN SelectSeq(from, LAMBDA r : UtcDate(r.time) < e[1])
        ELSE from

date_filter(frame, s, e) ==
    LET from == IF s # None
                THEN SelectSeq(frame, LAMBDA r : UtcDate(r.time) >= s[1])
                ELSE frame
    IN  IF e # None
        THEN SelectSeq(from, LAMBDA r : UtcDate(r.time) <= e[1])
        ELSE from

Filtering(s, e) == s # None \/ e # None

\* chunk["time"] raises KeyError when a date is given and the column is not there.
filter_raises(cols, s, e) == Filtering(s, e) /\ "time" \notin cols

\* The chunk main hands on: filtered only when a date is given.
Filtered(frame, s, e) ==
    IF Filtering(s, e) THEN date_filter(frame, s, e) ELSE frame

\* Variant: the empty chunk is not skipped.
Skips_Never(frame, s, e) == FALSE

\* `if chunk.empty: continue`, reached only under the date filter.
Skips(frame, s, e) == Filtering(s, e) /\ frame = <<>>

\* df_now.to_csv(target_csv, index=False): the header line and the rows.
to_csv(df) == [header |-> df.columns, rows |-> df.rows]

\* The file right after it was opened for writing: truncated.
Truncated == [header |-> <<>>, rows |-> <<>>]

\* The files a write that fails part-way may leave behind.
PartialFiles(df) ==
    {Truncated} \cup
    {[header |-> df.columns, rows |-> SubSeq(df.rows, 1, k)] : k \in 0..(Len(df.rows) - 1)}

(***************************************************************************)
(* main: the run of the script                                             *)
(***************************************************************************)
NoBatching == [A |-> <<>>, B |-> <<>>]
NoCut == [A |-> 0, B |-> 0]

\* scrape.py is not running.
NoScraping ==
    /\ npages = <<>>
    /\ ndays = 0
    /\ cache_dir = <<>>
    /\ fetch = Unbound
    /\ requests = <<>>
    /\ failed = {}

scraping == <<npages, ndays, cache_dir, fetch, requests, failed>>

Init ==
    /\ csv \in SeqsUpTo(RowPool, MaxRows)
    /\ columns = ALL_COLUMNS
    /\ chunksize \in 1..MaxChunk
    /\ start_d \in DateArgs
    /\ end_d \in DateArgs
    /\ pc = "read_csv"
    /\ cidx = 0
    /\ chunk = <<>>
    /\ store = <<>>
    /\ df_now = Unbound
    /\ target_csv = NoFile
    /\ live = NoTable
    /\ console = <<>>
    /\ error = NoError
    /\ persisted = Unbound
    /\ fresh = NoBatching
    /\ cut = NoCut
    /\ NoScraping

args == <<csv, columns, chunksize, start_d, end_d>>
batching == <<fresh, cut>>

\* The for loop draws the next chunk and applies the date filter; a chunk
\* left empty by the filter is skipped.
NextChunk ==
    /\ pc = "read_csv"
    /\ cidx < NumChunks(csv, chunksize)
    /\ ~filter_raises(columns, start_d, end_d)
    /\ LET frame == Filtered(read_chunk(csv, chunksize, cidx + 1), start_d, end_d)
       IN  /\ chunk' = frame
           /\ pc' = IF Skips(frame, start_d, end_d) THEN "read_csv" ELSE "update_store"
    /\ cidx' = cidx + 1
    /\ UNCHANGED <<args, scraping, store, df_now, target_csv, live, console, error,
                   persisted, batching>>

NextChunkRaises ==
    /\ pc = "read_csv"
    /\ cidx < NumChunks(csv, chunksize)
    /\ filter_raises(columns, start_d, end_d)
    /\ chunk' = read_chunk(csv, chunksize, cidx + 1)
    /\ cidx' = cidx + 1
    /\ error' = "KeyError"
    /\ pc' = "raised"
    /\ UNCHANGED <<args, scraping, store, df_now, target_csv, live, console, persisted,
                   batching>>

\* read_csv is exhausted: the loop and the Live display end.
Exhausted ==
    /\ pc = "read_csv"
    /\ cidx = NumChunks(csv, chunksize)
    /\ pc' = "final"
    /\ UNCHANGED <<args, scraping, cidx, chunk, store, df_now, target_csv, live, console,
                   error, persisted, batching>>

UpdateStore ==
    /\ pc = "update_store"
    /\ update_store_raises(columns, chunk) = NoError
    /\ store' = update_store(store, chunk)
    /\ pc' = "store_to_df"
    /\ UNCHANGED <<args, scraping, cidx, chunk, df_now, target_csv, live, console, error,
                   persisted, batching>>

UpdateStoreRaises ==
    /\ pc = "update_store"
    /\ update_store_raises(columns, chunk) # NoError
    /\ error' = update_store_raises(columns, chunk)
    /\ pc' = "raised"
    /\ UNCHANGED <<args, scraping, cidx, chunk, store, df_now, target_csv, live, console,
                   persisted, batching>>

StoreToDf ==
    /\ pc = "store_to_df"
    /\ \E df \in store_to_df(store) :
          /\ df_now' = df
          /\ pc' = "to_csv"
    /\ UNCHANGED <<args, scraping, cidx, chunk, store, target_csv, live, console, error,
                   persisted, batching>>

StoreToDfRaises ==
    /\ pc = "store_to_df"
    /\ store_to_df(store) = {}
    /\ error' = "KeyError"
    /\ pc' = "raised"
    /\ UNCHANGED <<args, scraping, cidx, chunk, store, df_now, target_csv, live, console,
                   persisted, batching>>

\* to_csv opens the target for writing, which truncates it ...
ToCsvOpen ==
    /\ pc = "to_csv"
    /\ target_csv' = Truncated
    /\ pc' = "to_csv_write"
    /\ UNCHANGED <<args, scraping, cidx, chunk, store, df_now, live, console, error,
                   persisted, batching>>

\* ... or fails to open it,
ToCsvOpenRaises ==
    /\ pc = "to_csv"
    /\ error' = "OSError"
    /\ pc' = "raised"
    /\ UNCHANGED <<args, scraping, cidx, chunk, store, df_now, target_csv, live, console,
                   persisted, batching>>

\* then writes the header and every row and returns ...
ToCsvWrite ==
    /\ pc = "to_csv_write"
    /\ target_csv' = to_csv(df_now)
    /\ persisted' = df_now
    /\ pc' = "live_update"
    /\ UNCHANGED <<args, scraping, cidx, chunk, store, df_now, live, console, error, batching>>

\* ... or fails part-way.
ToCsvWriteRaises ==
    /\ pc = "to_csv_write"
    /\ target_csv' \in PartialFiles(df_now)
    /\ error' = "OSError"
    /\ pc' = "raised"
    /\ UNCHANGED <<args, scraping, cidx, chunk, store, df_now, live, console, persisted,
                   batching>>

LiveUpdate ==
    /\ pc = "live_update"
    /\ live' = render_table(df_now, cidx, TOP_N_LIVE, None)
    /\ pc' = "read_csv"
    /\ UNCHANGED <<args, scraping, cidx, chunk, store, df_now, target_csv, console, error,
                   persisted, batching>>

LiveUpdateRaises ==
    /\ pc = "live_update"
    /\ error' = "LiveError"
    /\ pc' = "raised"
    /\ UNCHANGED <<args, scraping, cidx, chunk, store, df_now, target_csv, live, console,
                   persisted, batching>>

\* console.rule("Final Top-10")
Rule == [rule |-> "Final Top-10"]

\* After the loop: the rule, then the table of df_now, which is unbound
\* when no chunk got past the filter.
Final ==
    /\ pc = "final"
    /\ df_now # Unbound
    /\ console' = console \o <<Rule, render_table(df_now, cidx, TOP_N_FINAL,
                                                   Some(<<"Final Top-10 DPF-Risk">>))>>
    /\ pc' = "done"
    /\ UNCHANGED <<args, scraping, cidx, chunk, store, df_now, target_csv, live, error,
                   persisted, batching>>

FinalRaises ==
    /\ pc = "final"
    /\ df_now = Unbound
    /\ console' = console \o <<Rule>>
    /\ error' = "UnboundLocalError"
    /\ pc' = "raised"
    /\ UNCHANGED <<args, scraping, cidx, chunk, store, df_now, target_csv, live, persisted,
                   batching>>

Next ==
    \/ NextChunk
    \/ Exhausted
    \/ UpdateStore
    \/ StoreToDf
    \/ StoreToDfRaises
    \/ ToCsvOpen
    \/ ToCsvOpenRaises
    \/ ToCsvWrite
    \/ ToCsvWriteRaises
    \/ LiveUpdate
    \/ LiveUpdateRaises
    \/ Final
    \/ FinalRaises

Spec == Init /\ [][Next]_vars

(***************************************************************************)
(* The same run over a malformed file: a column is missing from the        *)
(* header, or a numeric cell is not a number                               *)
(***************************************************************************)
Schemas == {ALL_COLUMNS \ {c} : c \in ALL_COLUMNS}

HasBadRow(rows) == \E i \in 1..Len(rows) : rows[i] = BadRow

MalformedInit ==
    /\ \/ /\ columns \in Schemas
          /\ csv \in SeqsUpTo(RowPool, MaxRows)
       \/ /\ columns = ALL_COLUMNS
          /\ csv \in {r \in SeqsUpTo(RowPool \cup {BadRow}, MaxRows) : HasBadRow(r)}
    /\ chunksize \in 1..MaxChunk
    /\ start_d \in DateArgs
    /\ end_d \in DateArgs
    /\ pc = "read_csv"
    /\ cidx = 0
    /\ chunk = <<>>
    /\ store = <<>>
    /\ df_now = Unbound
    /\ target_csv = NoFile
    /\ live = NoTable
    /\ console = <<>>
    /\ error = NoError
    /\ persisted = Unbound
    /\ fresh = NoBatching
    /\ cut = NoCut
    /\ NoScraping

MalformedNext ==
    \/ Next
    \/ NextChunkRaises
    \/ UpdateStoreRaises

SpecMalformed == MalformedInit /\ [][MalformedNext]_vars

(***************************************************************************)
(* Runs over a file of one row whose cells sit on the thresholds           *)
(***************************************************************************)
\* Cell values on either side of each threshold of update_store, and NaN.
RpmCells == {NaN, Num(RPM_IDLE_MIN), Num(RPM_IDLE_MIN + 1), Num(RPM_IDLE_MAX - 1),
             Num(RPM_IDLE_MAX)}
SpeedCells == {NaN, Num(SPEED_IDLE - 1), Num(SPEED_IDLE), Num(SPEED_LOW - 1),
               Num(SPEED_LOW)}
LoadCells == {NaN, Num(LOAD_LOW_PCT - 1), Num(LOAD_LOW_PCT)}
CoolantCells == {NaN, Num(COOLANT_COLD_C - 1), Num(COOLANT_COLD_C)}

ThresholdRows ==
    {Row("V1", Time(1, 12, 0), rpm, spd, load, cool) :
        rpm \in RpmCells, spd \in SpeedCells, load \in LoadCells, cool \in CoolantCells}

ClassifyInit ==
    /\ csv \in {<<>>} \cup {<<r>> : r \in ThresholdRows}
    /\ columns = ALL_COLUMNS
    /\ chunksize = 1
    /\ start_d \in DateArgs
    /\ end_d = None
    /\ pc = "read_csv"
    /\ cidx = 0
    /\ chunk = <<>>
    /\ store = <<>>
    /\ df_now = Unbound
    /\ target_csv = NoFile
    /\ live = NoTable
    /\ console = <<>>
    /\ error = NoError
    /\ persisted = Unbound
    /\ fresh = NoBatching
    /\ cut = NoCut
    /\ NoScraping

SpecClassify == ClassifyInit /\ [][Next]_vars

(***************************************************************************)
(* scrape.py: for every day and stat type without a cache file, GET the    *)
(* pages of its history one after the other, then write the cache file     *)
(***************************************************************************)
\* config["stat_types"]
StatTypes == <<"engineStates", "gps">>

\* cache_dir / f"{date_str}-{stat_type}.json"; a date is its day_offset.
cache_file(d, t) == [date |-> d, type |-> t]

AllFiles == {cache_file(d, StatTypes[s]) : d \in 0..(MaxDays - 1), s \in 1..Len(StatTypes)}

\* payload["data"] of page k of the history of stat type t on day d.
Item(d, t, k) == [date |-> d, type |-> t, page |-> k]
Page(d, t, k) == <<Item(d, t, k)>>

\* The text of a cache file left by an earlier fetch.
OldText(f) == [text |-> <<Item(f.date, f.type, 0)>>]

\* cache_file.write_text(json.dumps(all_data))
write_text(all_data) == [text |-> all_data]

\* Variant: no cache file is ever found.
exists_Never(dir, f) == FALSE

\* cache_file.exists()
exists(dir, f) == dir[f] # NoFile

\* Variant: all_data = payload["data"].
extend_Replace(all_data, data) == data

\* all_data.extend(payload["data"])
extend(all_data, data) == all_data \o data

\* The dpf_risk.py run is not part of these behaviours.
NoScoring ==
    /\ csv = <<>>
    /\ columns = ALL_COLUMNS
    /\ chunksize = 1
    /\ start_d = None
    /\ end_d = None
    /\ pc = "idle"
    /\ cidx = 0
    /\ chunk = <<>>
    /\ store = <<>>
    /\ df_now = Unbound
    /\ target_csv = NoFile
    /\ live = NoTable
    /\ console = <<>>
    /\ error = NoError
    /\ persisted = Unbound
    /\ fresh = NoBatching
    /\ cut = NoCut

scoring == <<args, pc, cidx, chunk, store, df_now, target_csv, live, console, error,
             persisted, batching>>

\* The first run: at most one cache file is there from an earlier fetch.
FetchInit ==
    /\ npages \in [Range(StatTypes) -> 1..MaxPages]
    /\ ndays \in 1..MaxDays
    /\ cache_dir \in {[f \in AllFiles |-> IF f \in old THEN OldText(f) ELSE NoFile] :
                        old \in {S \in SUBSET AllFiles : Cardinality(S) <= 1}}
    /\ fetch = [pc |-> "for_stat", run |-> 1, day_offset |-> 0, i |-> 1,
                all_data |-> <<>>, after |-> None]
    /\ requests = <<>>
    /\ failed = {}
    /\ NoScoring

\* The cache file of the stat type the loop is at.
CurFile == cache_file(fetch.day_offset, StatTypes[fetch.i])

\* if cache_file.exists(): continue
CacheHit ==
    /\ fetch.pc = "for_stat"
    /\ fetch.i <= Len(StatTypes)
    /\ exists(cache_dir, CurFile)
    /\ fetch' = [fetch EXCEPT !.i = @ + 1]
    /\ UNCHANGED <<npages, ndays, cache_dir, requests, failed, scoring>>

\* No cache file: all_data = [], params = params_common | {"types": stat_type}
CacheMiss ==
    /\ fetch.pc = "for_stat"
    /\ fetch.i <= Len(StatTypes)
    /\ ~exists(cache_dir, CurFile)
    /\ fetch' = [fetch EXCEPT !.pc = "get", !.all_data = <<>>, !.after = None]
    /\ UNCHANGED <<npages, ndays, cache_dir, requests, failed, scoring>>

\* The page the API serves for a cursor: endCursor of page k is k.
PageAt(after) == IF after = None THEN 1 ELSE after[1] + 1

\* client.get succeeds: extend all_data; leave the loop on the last page,
\* else set params["after"] and go round.
GetPage ==
    /\ fetch.pc = "get"
    /\ LET k == PageAt(fetch.after)
           data == Page(CurFile.date, CurFile.type, k)
       IN  /\ requests' = Append(requests, [file |-> CurFile, after |-> fetch.after])
           /\ fetch' = IF k < npages[CurFile.type]
                       THEN [fetch EXCEPT !.all_data = extend(@, data), !.after = Some(k)]
                       ELSE [fetch EXCEPT !.all_data = extend(@, data), !.pc = "write_text"]
    /\ UNCHANGED <<npages, ndays, cache_dir, failed, scoring>>

\* not r.is_success: raise Exception(r.text), which ends the script.
GetFails ==
    /\ fetch.pc = "get"
    /\ requests' = Append(requests, [file |-> CurFile, after |-> fetch.after])
    /\ failed' = failed \cup {[file |-> CurFile, after |-> fetch.after]}
    /\ fetch' = [fetch EXCEPT !.pc = "raised"]
    /\ UNCHANGED <<npages, ndays, cache_dir, scoring>>

\* cache_file.write_text(json.dumps(all_data)), then the next stat type
WriteText ==
    /\ fetch.pc = "write_text"
    /\ cache_dir' = [cache_dir EXCEPT ![CurFile] = write_text(fetch.all_data)]
    /\ fetch' = [fetch EXCEPT !.pc = "for_stat", !.i = @ + 1]
    /\ UNCHANGED <<npages, ndays, requests, failed, scoring>>

\* fetch_stat_data returns; for day_offset in range(args.ndays): the next day
NextDay ==
    /\ fetch.pc = "for_stat"
    /\ fetch.i > Len(StatTypes)
    /\ fetch.day_offset + 1 < ndays
    /\ fetch' = [fetch EXCEPT !.day_offset = @ + 1, !.i = 1]
    /\ UNCHANGED <<npages, ndays, cache_dir, requests, failed, scoring>>

\* fetch_stat_data returns for the last day: the script ends.
Returned ==
    /\ fetch.pc = "for_stat"
    /\ fetch.i > Len(StatTypes)
    /\ fetch.day_offset + 1 >= ndays
    /\ fetch' = [fetch EXCEPT !.pc = "returned"]
    /\ UNCHANGED <<npages, ndays, cache_dir, requests, failed, scoring>>

\* The script is started again, with the same arguments, on the same .cache.
Rerun ==
    /\ fetch.pc \in {"returned", "raised"}
    /\ fetch.run < MaxRuns
    /\ fetch' = [pc |-> "for_stat", run |-> fetch.run + 1, day_offset |-> 0, i |-> 1,
                 all_data |-> <<>>, after |-> None]
    /\ requests' = <<>>
    /\ UNCHANGED <<npages, ndays, cache_dir, failed, scoring>>

FetchNext ==
    \/ CacheHit
    \/ CacheMiss
    \/ GetPage
    \/ GetFails
    \/ WriteText
    \/ NextDay
    \/ Returned
    \/ Rerun

SpecFetch == FetchInit /\ [][FetchNext]_vars

(***************************************************************************)
(* update_store on two batchings of the same rows, each into a fresh store *)
(***************************************************************************)
BatchInit ==
    /\ csv \in SeqsUpTo(RowPool, MaxRows)
    /\ columns = ALL_COLUMNS
    /\ chunksize = 1
    /\ start_d = None
    /\ end_d = None
    /\ pc = "batching"
    /\ cidx = 0
    /\ chunk = <<>>
    /\ store = <<>>
    /\ df_now = Unbound
    /\ target_csv = NoFile
    /\ live = NoTable
    /\ console = <<>>
    /\ error = NoError
    /\ persisted = Unbound
    /\ fresh = NoBatching
    /\ cut = NoCut
    /\ NoScraping

\* Merge the next k rows, as one batch, into store A (or B).
MergeA ==
    /\ \E k \in 1..(Len(csv) - cut.A) :
          /\ fresh' = [fresh EXCEPT !.A = update_store(@, SubSeq(csv, cut.A + 1, cut.A + k))]
          /\ cut' = [cut EXCEPT !.A = @ + k]
    /\ UNCHANGED <<args, scraping, pc, cidx, chunk, store, df_now, target_csv, live, console,
                   error, persisted>>

MergeB ==
    /\ \E k \in 1..(Len(csv) - cut.B) :
          /\ fresh' = [fresh EXCEPT !.B = update_store(@, SubSeq(csv, cut.B + 1, cut.B + k))]
          /\ cut' = [cut EXCEPT !.B = @ + k]
    /\ UNCHANGED <<args, scraping, pc, cidx, chunk, store, df_now, target_csv, live, console,
                   error, persisted>>

BatchNext == MergeA \/ MergeB

SpecBatch == BatchInit /\ [][BatchNext]_vars

(***************************************************************************)
(* Properties                                                              *)
(***************************************************************************)
Entities == Range(VINS)

\* No row of the input has a negative speed.
NonNegativeSpeeds == \A i \in 1..Len(csv) : ~Lt(csv[i].ecuSpeedMph, 0)

C8_AllSixMonotone ==
    [][\A v \in Entities :
          /\ v \in Keys(store) => v \in Keys(store')
          /\ \A i \in 1..6 :
                /\ SlotOf(store', v)[i] >= 0
                /\ SlotOf(store', v)[i] >= SlotOf(store, v)[i]]_vars

\* C8, amended: total and the four condition counters are non-negative and
\* never decrease; the speed sum is non-negative and never decreases when no
\* row of the input has a negative speed.
C8_CountersMonotone ==
    [][\A v \in Entities :
          /\ v \in Keys(store) => v \in Keys(store')
          /\ \A i \in 1..5 :
                /\ SlotOf(store', v)[i] >= 0
                /\ SlotOf(store', v)[i] >= SlotOf(store, v)[i]
          /\ NonNegativeSpeeds =>
                /\ SlotOf(store', v)[6] >= 0
                /\ SlotOf(store', v)[6] >= SlotOf(store, v)[6]]_vars

\* Over an input of no negative speed, an entity's counters have grown over
\* two merges of one row each.
C8_Witness ==
    /\ NonNegativeSpeeds
    /\ chunksize = 1
    /\ pc = "store_to_df"
    /\ \E v \in Entities : SlotOf(store, v)[1] >= 2 /\ SlotOf(store, v)[6] > 0

\* C9: in every store state, for every entity, the idle, low-speed, low-load
\* and cold counters are each at most total.
C9_ConditionsAtMostTotal ==
    \A i \in 1..Len(store) : \A k \in 2..5 : store[i].slot[k] <= store[i].slot[1]

\* An entity with several rows, a condition counter that equals its total
\* and one that is below it.
C9_Witness ==
    \E i \in 1..Len(store) :
        /\ store[i].slot[1] >= 2
        /\ \E k \in 2..5 : store[i].slot[k] = store[i].slot[1]
        /\ \E k \in 2..5 : store[i].slot[k] < store[i].slot[1]

\* C10: when no row of the input has a negative speed, every risk of every
\* ranking built lies in [0, 1].
C10_RiskInUnitInterval ==
    (NonNegativeSpeeds /\ df_now # Unbound) =>
        \A i \in 1..Len(df_now.rows) :
            /\ QLe(QInt(0), df_now.rows[i].Risk)
            /\ QLe(df_now.rows[i].Risk, QInt(1))

\* A ranking over such an input that holds both ends of the interval.
C10_Witness ==
    /\ NonNegativeSpeeds
    /\ df_now # Unbound
    /\ \E i \in 1..Len(df_now.rows) : df_now.rows[i].Risk = QInt(1)
    /\ \E i \in 1..Len(df_now.rows) : df_now.rows[i].Risk = QInt(0)

\* The run is over: main returned or an exception left it.
Ended == pc \in {"done", "raised"}

\* The tables printed after the loop.
FinalTables == SelectSeq(console, LAMBDA x : x # Rule)

\* C2: a run over a file of no data rows ends normally with an empty
\* ranking and a target file that holds the header line alone.
C2_EmptyDataset ==
    (csv = <<>> /\ Ended) =>
        /\ pc = "done"
        /\ df_now # Unbound
        /\ df_now.rows = <<>>
        /\ target_csv = [header |-> COLUMNS, rows |-> <<>>]

\* C3: once read_csv is exhausted and the run is over, exactly one final
\* table was printed and it is the table of a ranking of the whole store;
\* also when every chunk was skipped by the date filter.
C3_TerminalReportOnce ==
    (Ended /\ console # <<>>) =>
        /\ Len(FinalTables) = 1
        /\ \E df \in store_to_df(store) :
              FinalTables[1] = render_table(df, cidx, TOP_N_FINAL,
                                            Some(<<"Final Top-10 DPF-Risk">>))

\* Position of a VIN in the store's insertion order.
StorePos(v) == CHOOSE i \in 1..Len(store) : store[i].vin = v

\* C4: every ranking is descending by Risk, and rows of equal Risk are in
\* the order their entities were inserted into the store.
C4_DescendingStable ==
    df_now # Unbound =>
        /\ Descending(df_now.rows)
        /\ \A i, j \in 1..Len(df_now.rows) :
              (i < j /\ df_now.rows[i].Risk = df_now.rows[j].Risk)
                  => StorePos(df_now.rows[i].VIN) < StorePos(df_now.rows[j].VIN)

\* C5: a failure of to_csv or of the Live update does not end the run.
C5_SinkFailureNotFatal ==
    error \in {"OSError", "LiveError"} => pc # "raised"

\* The chunk the loop draws next is empty after the date filter.
NextIsEmptied ==
    /\ pc = "read_csv"
    /\ cidx < NumChunks(csv, chunksize)
    /\ Filtering(start_d, end_d)
    /\ date_filter(read_chunk(csv, chunksize, cidx + 1), start_d, end_d) = <<>>

\* C6: a chunk left empty by the date filter is skipped: the store, the
\* ranking, the target file and the display stay as they are, nothing is
\* materialized, and the loop goes on to the next chunk; a chunk the filter
\* leaves rows in is handed to update_store, and the loop ends only when
\* every chunk was drawn.
C6_EmptyChunkSkipped ==
    [][/\ NextIsEmptied =>
            /\ store' = store
            /\ df_now' = df_now
            /\ target_csv' = target_csv
            /\ persisted' = persisted
            /\ live' = live
            /\ cidx' = cidx + 1
            /\ pc' = "read_csv"
       /\ (pc = "read_csv" /\ cidx < NumChunks(csv, chunksize) /\ ~NextIsEmptied) =>
            /\ pc' = "update_store"
            /\ chunk' = Filtered(read_chunk(csv, chunksize, cidx + 1), start_d, end_d)
       /\ (pc = "read_csv" /\ pc' = "final") => cidx = NumChunks(csv, chunksize)]_vars

\* A chunk was skipped and a later chunk has been merged, ranked and written.
C6_Witness ==
    /\ pc = "live_update"
    /\ Filtering(start_d, end_d)
    /\ \E i \in 1..(cidx - 1) :
          date_filter(read_chunk(csv, chunksize, i), start_d, end_d) = <<>>
    /\ target_csv = to_csv(df_now)

\* C7: wherever the run stops after a to_csv call has returned, the target
\* file is exactly what the last returned to_csv call wrote.
C7_FileIsLastMaterialization ==
    persisted # Unbound => target_csv = to_csv(persisted)

\* Nothing was merged, ranked, written or shown.
NothingAggregated ==
    /\ store = <<>>
    /\ df_now = Unbound
    /\ target_csv = NoFile
    /\ live = NoTable

\* C11 as stated: with any of the six columns missing, the run aborts with
\* nothing merged, ranked or written.
C11_AnyMissingColumnAborts ==
    columns # ALL_COLUMNS => (NothingAggregated /\ pc # "done")

\* A column this run needs is missing: vin or one of the four numeric
\* columns, or time when a start or end date is given.
NeededColumnMissing ==
    \/ ~((NUMERIC \cup {"vin"}) \subseteq columns)
    \/ filter_raises(columns, start_d, end_d)

\* C11, amended: when vin or a numeric column is missing, or time is missing
\* and a date is given, the run never merges, ranks or writes anything and
\* ends by an exception; a missing time column goes unnoticed when no date
\* is given.
C11_NeededColumnMissingAborts ==
    NeededColumnMissing =>
        /\ NothingAggregated
        /\ pc \in {"read_csv", "update_store", "final", "raised"}
        /\ Ended => error \in {"KeyError", "UnboundLocalError"}

\* The vin column is missing; the first chunk was skipped by the date filter
\* and the second one made update_store raise.
C11_Witness ==
    /\ "vin" \notin columns
    /\ cidx = 2
    /\ pc = "raised"
    /\ error = "KeyError"
    /\ NothingAggregated

\* pd.to_numeric(errors="coerce") on the numeric columns: a str becomes NaN.
Coerced(frame) ==
    [i \in 1..Len(frame) |->
        [c \in DOMAIN frame[i] |->
            IF c \in NUMERIC /\ IsStr(frame[i][c]) THEN NaN ELSE frame[i][c]]]

InDateRange(r) ==
    /\ start_d # None => start_d[1] <= UtcDate(r.time)
    /\ end_d # None => UtcDate(r.time) <= end_d[1]

\* C13: the chunk handed to update_store holds exactly the rows of the chunk
\* read whose UTC date lies in the inclusive range, in their original order.
C13_DateFilterInclusive ==
    cidx >= 1 =>
        chunk = SelectSeq(read_chunk(csv, chunksize, cidx), InDateRange)

\* A chunk of two rows under start = end, of which the filter kept one, a
\* row whose UTC date is the boundary date and differs from its local date.
C13_Witness ==
    /\ pc = "update_store"
    /\ start_d # None
    /\ start_d = end_d
    /\ Len(read_chunk(csv, chunksize, cidx)) = 2
    /\ Len(chunk) = 1
    /\ UtcDate(chunk[1].time) = start_d[1]
    /\ chunk[1].time.date # start_d[1]

\* df_now was built from the store as it is now.
RankingIsCurrent == df_now # Unbound /\ pc # "store_to_df"

\* The claim's score of a slot, as a fraction over 300 * total:
\* 0.2 * (sum of the four ratios + max(0, 1 - (speedSum / total) / 60)).
ClaimedRisk300(slot) ==
    60 * (slot[2] + slot[3] + slot[4] + slot[5])
        + (IF 60 * slot[1] - slot[6] > 0 THEN 60 * slot[1] - slot[6] ELSE 0)

NoDateRange == start_d = None /\ end_d = None

\* C15: every store entry of total > 0 has a row in the ranking whose Risk
\* is 0.2 * (the four ratios + max(0, 1 - (speedSum/total)/60)); two rows
\* {700, 0, 10, 50000} of one entity give 1, one row {1500, 65, 80, 90000}
\* gives 0.
C15_ScoreFormula ==
    RankingIsCurrent =>
        /\ \A k \in 1..Len(store) :
              store[k].slot[1] > 0 =>
                  \E i \in 1..Len(df_now.rows) :
                      /\ df_now.rows[i].VIN = store[k].vin
                      /\ df_now.rows[i].Risk[1] * 300 * store[k].slot[1]
                            = df_now.rows[i].Risk[2] * ClaimedRisk300(store[k].slot)
        /\ (/\ NoDateRange
            /\ csv = << Row("V1", Time(1, 12, 0), Num(700), Num(0), Num(10), Num(50000)),
                        Row("V1", Time(1, 12, 0), Num(700), Num(0), Num(10), Num(50000)) >>
            /\ pc = "done")
               => (Len(df_now.rows) = 1 /\ df_now.rows[1].Risk = <<1, 1>>)
        /\ (/\ NoDateRange
            /\ csv = << Row("V2", Time(1, 12, 0), Num(1500), Num(65), Num(80), Num(90000)) >>
            /\ pc = "done")
               => (Len(df_now.rows) = 1 /\ df_now.rows[1].Risk = <<0, 1>>)

\* A ranking of an entity with two rows whose speed penalty lies strictly
\* between 0 and 1 and whose condition counters are not all zero.
C15_Witness ==
    /\ RankingIsCurrent
    /\ \E k \in 1..Len(store) :
          /\ store[k].slot[1] >= 2
          /\ store[k].slot[6] > 0
          /\ store[k].slot[6] < 60 * store[k].slot[1]
          /\ store[k].slot[2] + store[k].slot[3] > 0
          /\ \E i \in 1..Len(df_now.rows) : df_now.rows[i].VIN = store[k].vin

\* The rows of the first n chunks that lie in the date range: the rows
\* handed to update_store by the time n chunks were merged.
RowsMerged(n) ==
    SelectSeq(SubSeq(csv, 1, Min(n * chunksize, Len(csv))), InDateRange)

VinsOf(frame) == {frame[i].vin : i \in 1..Len(frame)}

\* The ranking was built right after the merge of chunk cidx.
JustMaterialized == pc \in {"to_csv", "to_csv_write", "live_update"}

\* C17: after every merge the ranking holds exactly one row for each entity
\* of the store, that is for each entity of any chunk merged so far, and the
\* row is the score of the entity's counters summed over all those chunks.
C17_RankingCoversStore ==
    JustMaterialized =>
        /\ {df_now.rows[i].VIN : i \in 1..Len(df_now.rows)} = Keys(store)
        /\ Keys(store) = VinsOf(RowsMerged(cidx))
        /\ Len(df_now.rows) = Cardinality(Keys(store))
        /\ \A i \in 1..Len(df_now.rows) :
              df_now.rows[i] = ScoreRow(df_now.rows[i].VIN,
                                        GroupSum(RowsMerged(cidx), df_now.rows[i].VIN))

\* The ranking after a second merge has a row for an entity that has no row
\* in the chunk just merged, and a row for an entity with rows in both chunks.
C17_Witness ==
    /\ JustMaterialized
    /\ cidx >= 2
    /\ \E i \in 1..Len(df_now.rows) : ~InFrame(chunk, df_now.rows[i].VIN)
    /\ \E i \in 1..Len(df_now.rows) :
          /\ InFrame(chunk, df_now.rows[i].VIN)
          /\ GroupSum(RowsMerged(cidx), df_now.rows[i].VIN)[1] > GroupSum(chunk, df_now.rows[i].VIN)[1]

\* The number of chunks merged into the store so far.
MergedChunks == IF pc = "update_store" THEN cidx - 1 ELSE cidx

\* C18: a merge creates one record for each entity first seen in the chunk,
\* removes none, keeps the records of the entities without a row in the
\* chunk as they are and where they are; the store's keys are always the
\* distinct entities of the rows merged, one record each.
C18_MergeFrame ==
    [][/\ (pc = "update_store" /\ pc' = "store_to_df") =>
            /\ Keys(store') = Keys(store) \cup VinsOf(chunk)
            /\ Len(store') = Len(store) + Cardinality(VinsOf(chunk) \ Keys(store))
            /\ \A i \in 1..Len(store) :
                  /\ store'[i].vin = store[i].vin
                  /\ ~InFrame(chunk, store[i].vin) => store'[i] = store[i]
            /\ \A v \in VinsOf(chunk) \ Keys(store) :
                  SlotOf(store', v) = GroupSum(chunk, v)
       /\ ~(pc = "update_store" /\ pc' = "store_to_df") => store' = store
       /\ Keys(store) = VinsOf(RowsMerged(MergedChunks))
       /\ Len(store) = Cardinality(Keys(store))]_vars

\* A second merge: one record has no row in the chunk, another one has rows
\* in this chunk and in the chunk before, so the rows merged outnumber the
\* records.
C18_Witness ==
    /\ pc = "store_to_df"
    /\ cidx = 2
    /\ \E i \in 1..Len(store) : ~InFrame(chunk, store[i].vin)
    /\ \E i \in 1..Len(store) :
          /\ InFrame(chunk, store[i].vin)
          /\ store[i].slot[1] > GroupSum(chunk, store[i].vin)[1]
    /\ Len(RowsMerged(cidx)) > Cardinality(Keys(store))

\* The claim's classification of a row: the six amounts it adds to its
\* entity's record, a comparison on a null cell being false.
ClaimedFlags(r) ==
    LET rpm == r.engineRpm
        spd == r.ecuSpeedMph
        load == r.engineLoadPercent
        cool == r.engineCoolantTemperatureMilliC
        B(b) == IF b THEN 1 ELSE 0
    IN  << 1,
           B(rpm # NaN /\ spd # NaN /\ 600 < rpm[1] /\ rpm[1] < 1000 /\ spd[1] < 1),
           B(spd # NaN /\ spd[1] < 20),
           B(load # NaN /\ load[1] < 40),
           B(cool # NaN /\ cool[1] < 60000),
           IF spd = NaN THEN 0 ELSE spd[1] >>

\* C16: the record update_store makes of a single row that passed the date
\* filter holds total 1, idle iff 600 < rpm < 1000 and speed < 1, lowSpeed
\* iff speed < 20, lowLoad iff load < 40, cold iff coolant < 60000,
\* comparisons on a null cell being false, and the row's speed, 0 when it
\* is null.
C16_ClassifierThresholds ==
    (Len(csv) = 1 /\ cidx = 1 /\ pc # "update_store" /\ InDateRange(csv[1])) =>
        store = <<[vin |-> csv[1].vin, slot |-> ClaimedFlags(csv[1])]>>

\* A row with null rpm and null coolant, speed 0 and load 39 was merged: it
\* counts in total, lowSpeed and lowLoad, not in idle or cold.
C16_Witness ==
    /\ Len(csv) = 1
    /\ pc = "store_to_df"
    /\ csv[1].engineRpm = NaN
    /\ csv[1].engineCoolantTemperatureMilliC = NaN
    /\ store = <<[vin |-> "V1", slot |-> <<1, 0, 1, 1, 0, 0>>]>>

\* Every page of the history a cache file is for, in the order the API
\* serves them.
RECURSIVE PagesUpTo(_, _)
PagesUpTo(f, k) ==
    IF k = 0 THEN <<>> ELSE PagesUpTo(f, k - 1) \o Page(f.date, f.type, k)

AllPages(f) == PagesUpTo(f, npages[f.type])

RequestsFor(f) == SelectSeq(requests, LAMBDA q : q.file = f)

\* The present run's loop is at the pair of file f.
AtFile(f) ==
    /\ fetch.i <= Len(StatTypes)
    /\ f = cache_file(fetch.day_offset, StatTypes[fetch.i])

\* The present run's loop has gone past the pair of file f.
Passed(f) ==
    \/ f.date < fetch.day_offset
    \/ /\ f.date = fetch.day_offset
       /\ \E s \in 1..Len(StatTypes) : StatTypes[s] = f.type /\ s < fetch.i

\* C19: a cache file changes only by the write that follows the successful
\* fetch of every page of its pair, and then holds all the pages in fetch
\* order; a failed request ends the run with the pair's cache file absent
\* and the cache untouched; a run that comes past a pair whose fetch once
\* failed has fetched it anew from the first page.
C19_CacheWrittenWhenComplete ==
    [][/\ \A f \in AllFiles :
             cache_dir'[f] # cache_dir[f] =>
                 /\ cache_dir[f] = NoFile
                 /\ Len(RequestsFor(f)) = npages[f.type]
                 /\ \A j \in 1..Len(RequestsFor(f)) :
                       RequestsFor(f)[j].after = (IF j = 1 THEN None ELSE Some(j - 1))
                 /\ cache_dir'[f] = [text |-> AllPages(f)]
       /\ (fetch.pc = "get" /\ requests' # requests /\ fetch'.pc = "raised") =>
             /\ cache_dir' = cache_dir
             /\ \A f \in AllFiles : AtFile(f) => cache_dir'[f] = NoFile
       /\ fetch.pc = "raised" =>
             \A f \in AllFiles : AtFile(f) => cache_dir[f] = NoFile
       /\ \A x \in failed :
             Passed(x.file) =>
                 /\ cache_dir[x.file] = [text |-> AllPages(x.file)]
                 /\ \A j \in 1..Len(RequestsFor(x.file)) :
                       RequestsFor(x.file)[j].after = (IF j = 1 THEN None ELSE Some(j - 1))]_vars

\* A request for the second page of a pair once failed; the present, later
\* run has fetched the pair again from the first page and written its file.
C19_Witness ==
    /\ fetch.run >= 2
    /\ \E x \in failed :
          /\ x.after # None
          /\ Passed(x.file)
          /\ Len(RequestsFor(x.file)) = npages[x.file.type]
          /\ RequestsFor(x.file)[1].after = None
          /\ cache_dir[x.file] = [text |-> AllPages(x.file)]

\* C20: at a pair whose cache file exists the loop sends no request, leaves
\* the cache as it is and goes on to the next stat type of the same date;
\* requests are only sent for a pair without a cache file, and a file that
\* exists is never changed.
C20_CachedPairSkipped ==
    [][/\ (/\ fetch.pc = "for_stat"
           /\ fetch.i <= Len(StatTypes)
           /\ \E f \in AllFiles : AtFile(f) /\ cache_dir[f] # NoFile) =>
               /\ requests' = requests
               /\ cache_dir' = cache_dir
               /\ fetch'.pc = "for_stat"
               /\ fetch'.day_offset = fetch.day_offset
               /\ fetch'.i = fetch.i + 1
       /\ (requests' # requests /\ requests' # <<>>) =>
               \A f \in AllFiles : AtFile(f) => cache_dir[f] = NoFile
       /\ \A f \in AllFiles : cache_dir[f] # NoFile => cache_dir'[f] = cache_dir[f]]_vars

\* The first stat type of a date had a cache file from an earlier fetch,
\* which is still as it was, and the second stat type of that date has
\* been fetched and written in this run.
C20_Witness ==
    \E d \in 0..(MaxDays - 1) :
        /\ cache_dir[cache_file(d, StatTypes[1])] = OldText(cache_file(d, StatTypes[1]))
        /\ RequestsFor(cache_file(d, StatTypes[1])) = <<>>
        /\ RequestsFor(cache_file(d, StatTypes[2])) # <<>>
        /\ cache_dir[cache_file(d, StatTypes[2])] = [text |-> AllPages(cache_file(d, StatTypes[2]))]

====
